---- MODULE Spec2Model ----
(***************************************************************************)
(* The language server of server/src/server.ts and its built form          *)
(* server/out/server.js: the document store, the settings resolver, the    *)
(* diagnostic scanner and the completion classifier, as a state machine.   *)
(* Texts are sequences of one-character strings; offsets are the 0-based   *)
(* offsets of JavaScript, so the character at offset i of text is          *)
(* text[i + 1].                                                            *)
(***************************************************************************)
EXTENDS Integers, Sequences, FiniteSets, Bags, TLC

\* ------------------------------------------------------------------ bounds
\* Longest document text drawn exhaustively from ScanAlphabet.
MaxTextLen == 5
\* Largest maxNumberOfProblems the host sets besides the default.
MaxLimit == 2
\* Diagnostic scans that may be suspended at the same time.
MaxScans == 2
\* Fragments a document of SpecComplete is put together from.
MaxFrags == 2

\* --------------------------------------------------------- character classes
UpperLetters ==
    {"A", "B", "C", "D", "E", "F", "G", "H", "I", "J", "K", "L", "M",
     "N", "O", "P", "Q", "R", "S", "T", "U", "V", "W", "X", "Y", "Z"}

LowerLetters ==
    {"a", "b", "c", "d", "e", "f", "g", "h", "i", "j", "k", "l", "m",
     "n", "o", "p", "q", "r", "s", "t", "u", "v", "w", "x", "y", "z"}

DigitChars == {"0", "1", "2", "3", "4", "5", "6", "7", "8", "9"}

\* [A-Z] of the pattern /\b[A-Z]{2,}\b/g.
IsUpper(c) == c \in UpperLetters

\* \w, the class that decides \b: [A-Za-z0-9_].
WordChars == UpperLetters \cup LowerLetters \cup DigitChars \cup {"_"}

IsWord(c) == c \in WordChars

\* \s of the trigger patterns /<namespace>\.\s*$/ (the ASCII members).
SpaceChars == {" ", "\t", "\n", "\r", "\f"}

IsSpace(c) == c \in SpaceChars

\* A line terminator of the text document.
EOLChars == {"\n", "\r"}

IsEOL(c) == c \in EOLChars

Min(a, b) == IF a <= b THEN a ELSE b

Max(a, b) == IF a >= b THEN a ELSE b

\* text.substring(from, to), 0-based, to exclusive.
substring(text, from, to) == SubSeq(text, from + 1, to)

\* ----------------------------------------------------------- the pattern
\* The pattern without its \b assertions, /[A-Z]{2,}/g: every offset passes.
wordBoundaryAnywhere(text, i) == TRUE

\* \b at offset i: exactly one of the characters before and after is a \w.
wordBoundary(text, i) ==
    LET before == i > 0 /\ IsWord(text[i])
        after  == i < Len(text) /\ IsWord(text[i + 1])
    IN  before # after

\* The number of consecutive [A-Z] characters from offset i.
RECURSIVE upperRun(_, _)
upperRun(text, i) ==
    IF i < Len(text) /\ IsUpper(text[i + 1]) THEN 1 + upperRun(text, i + 1) ELSE 0

\* The greedy quantifier {2,} backtracking from k characters taken at offset
\* i: the longest length >= 2, at most k, after which \b holds; 0 when none.
RECURSIVE backtrack(_, _, _)
backtrack(text, i, k) ==
    IF k < 2 THEN 0
    ELSE IF wordBoundary(text, i + k) THEN k
    ELSE backtrack(text, i, k - 1)

\* The length of the match of \b[A-Z]{2,}\b attempted at offset i, 0 when the
\* attempt fails: the quantifier first takes the whole run of [A-Z].
matchAt(text, i) ==
    IF ~wordBoundary(text, i) THEN 0 ELSE backtrack(text, i, upperRun(text, i))

\* The search of exec from offset i on: the leftmost attempt that succeeds.
\* A failed search resets lastIndex to 0, a match moves it to its end.
RECURSIVE search(_, _)
search(text, i) ==
    IF i > Len(text)
    THEN [found |-> FALSE, index |-> 0, length |-> 0, lastIndex |-> 0]
    ELSE LET n == matchAt(text, i)
         IN  IF n > 0
             THEN [found |-> TRUE, index |-> i, length |-> n, lastIndex |-> i + n]
             ELSE search(text, i + 1)

\* pattern.exec(text) of a global pattern whose lastIndex is lastIndex.
exec(text, lastIndex) == search(text, lastIndex)

\* ------------------------------------------------- the text document object
\* TextDocument.getLineOffsets: the offsets at which the lines start. A line
\* ends at "\n", at "\r" or at the pair "\r\n".
RECURSIVE lineOffsetsFrom(_, _, _)
lineOffsetsFrom(text, i, acc) ==
    IF i >= Len(text) THEN acc
    ELSE IF IsEOL(text[i + 1])
         THEN IF text[i + 1] = "\r" /\ i + 1 < Len(text) /\ text[i + 2] = "\n"
              THEN lineOffsetsFrom(text, i + 2, Append(acc, i + 2))
              ELSE lineOffsetsFrom(text, i + 1, Append(acc, i + 1))
         ELSE lineOffsetsFrom(text, i + 1, acc)

\* lineOffsets(text)[l + 1] is the offset at which line l starts.
lineOffsets(text) == lineOffsetsFrom(text, 0, <<0>>)

\* TextDocument.ensureBeforeEOL: an offset is moved back over the line
\* terminators that precede it, never before the start of its line.
RECURSIVE ensureBeforeEOL(_, _, _)
ensureBeforeEOL(text, offset, lineOffset) ==
    IF offset > lineOffset /\ IsEOL(text[offset])
    THEN ensureBeforeEOL(text, offset - 1, lineOffset)
    ELSE offset

\* textDocument.positionAt(offset): the offset is clamped to the text, its
\* line is the last line that starts at or before it.
positionAt(text, offset) ==
    LET o    == Max(Min(offset, Len(text)), 0)
        lo   == lineOffsets(text)
        line == Cardinality({l \in 1..Len(lo) : lo[l] <= o}) - 1
    IN  [line |-> line,
         character |-> ensureBeforeEOL(text, o, lo[line + 1]) - lo[line + 1]]

\* offsetAt that clamps a character to the end of the text instead of the
\* end of its line.
offsetAtClampsToText(text, position) ==
    LET lo == lineOffsets(text)
    IN  IF position.line >= Len(lo) THEN Len(text)
        ELSE IF position.line < 0 THEN 0
        ELSE IF position.character <= 0 THEN lo[position.line + 1]
        ELSE Min(lo[position.line + 1] + position.character, Len(text))

\* textDocument.offsetAt(position): a line past the last one gives the end
\* of the text, a character past the end of its line is clamped to that end.
offsetAt(text, position) ==
    LET lo == lineOffsets(text)
    IN  IF position.line >= Len(lo) THEN Len(text)
        ELSE IF position.line < 0 THEN 0
        ELSE LET lineOffset == lo[position.line + 1]
                 nextLineOffset == IF position.line + 1 < Len(lo)
                                   THEN lo[position.line + 2]
                                   ELSE Len(text)
             IN  IF position.character <= 0 THEN lineOffset
                 ELSE ensureBeforeEOL(text,
                          Min(lineOffset + position.character, nextLineOffset),
                          lineOffset)

\* textDocument.getText(range).
getText(text, range) ==
    substring(text, offsetAt(text, range.start), offsetAt(text, range.end))

\* ------------------------------------------------------ the diagnostic scan
\* The tail of the message template `${m[0]} is all uppercase.`.
IsAllUppercase ==
    <<" ", "i", "s", " ", "a", "l", "l", " ", "u", "p", "p", "e", "r", "c",
      "a", "s", "e", ".">>

\* m[0], the matched text of a match m of exec.
matched(text, m) == substring(text, m.index, m.index + m.length)

\* relatedInformation without the test of the capability flag.
relatedInformationAlways(uri, range, hasRelated) ==
    <<[location |-> [uri |-> uri, range |-> range],
       message |-> "Spelling matters"],
      [location |-> [uri |-> uri, range |-> range],
       message |-> "Particularly for names"]>>

\* The two entries of diagnostic.relatedInformation; <<>> stands for the
\* property being absent.
relatedInformation(uri, range, hasRelated) ==
    IF hasRelated
    THEN <<[location |-> [uri |-> uri, range |-> range],
            message |-> "Spelling matters"],
           [location |-> [uri |-> uri, range |-> range],
            message |-> "Particularly for names"]>>
    ELSE <<>>

\* The loop body with a range that ends on the last character of the match
\* instead of just past it.
DiagnosticInclusiveEnd(text, uri, m, hasRelated) ==
    LET range == [start |-> positionAt(text, m.index),
                  end   |-> positionAt(text, m.index + m.length - 1)]
    IN  [severity |-> "Warning",
         range    |-> range,
         message  |-> matched(text, m) \o IsAllUppercase,
         source   |-> "ex",
         relatedInformation |-> relatedInformation(uri, range, hasRelated)]

\* The Diagnostic built in the loop body for the match m.
Diagnostic(text, uri, m, hasRelated) ==
    LET range == [start |-> positionAt(text, m.index),
                  end   |-> positionAt(text, m.index + m.length)]
    IN  [severity |-> "Warning",
         range    |-> range,
         message  |-> matched(text, m) \o IsAllUppercase,
         source   |-> "ex",
         relatedInformation |-> relatedInformation(uri, range, hasRelated)]

\* The loop condition with <= for <: one finding more than the limit.
underLimitInclusive(problems, settings) == problems <= settings.maxNumberOfProblems

\* The loop condition after exec has run: problems < settings.maxNumberOfProblems.
underLimit(problems, settings) == problems < settings.maxNumberOfProblems

\* The loop as a do-while: the body runs for a match before the limit is
\* tested.
RECURSIVE whileLoopBodyFirst(_, _, _, _, _, _, _)
whileLoopBodyFirst(text, uri, settings, hasRelated, lastIndex, problems, diagnostics) ==
    LET m == exec(text, lastIndex)
        pushed == Append(diagnostics, Diagnostic(text, uri, m, hasRelated))
    IN  IF ~m.found
        THEN [diagnostics |-> diagnostics, lastIndex |-> m.lastIndex]
        ELSE IF problems + 1 < settings.maxNumberOfProblems
        THEN whileLoopBodyFirst(text, uri, settings, hasRelated, m.lastIndex,
                                problems + 1, pushed)
        ELSE [diagnostics |-> pushed, lastIndex |-> m.lastIndex]

\* The loop with diagnostics.unshift(diagnostic) for diagnostics.push(diagnostic).
RECURSIVE whileLoopUnshift(_, _, _, _, _, _, _)
whileLoopUnshift(text, uri, settings, hasRelated, lastIndex, problems, diagnostics) ==
    LET m == exec(text, lastIndex)
    IN  IF m.found /\ problems < settings.maxNumberOfProblems
        THEN whileLoopUnshift(text, uri, settings, hasRelated, m.lastIndex, problems + 1,
                 <<Diagnostic(text, uri, m, hasRelated)>> \o diagnostics)
        ELSE [diagnostics |-> diagnostics, lastIndex |-> m.lastIndex]

\* while ((m = pattern.exec(text)) && problems < settings.maxNumberOfProblems):
\* exec runs, and moves lastIndex, before the limit is tested. The result is
\* the diagnostics and the lastIndex the pattern object is left with.
RECURSIVE whileLoop(_, _, _, _, _, _, _)
whileLoop(text, uri, settings, hasRelated, lastIndex, problems, diagnostics) ==
    LET m == exec(text, lastIndex)
    IN  IF m.found /\ underLimit(problems, settings)
        THEN whileLoop(text, uri, settings, hasRelated, m.lastIndex, problems + 1,
                       Append(diagnostics, Diagnostic(text, uri, m, hasRelated)))
        ELSE [diagnostics |-> diagnostics, lastIndex |-> m.lastIndex]

\* The pattern hoisted to module scope: one pattern object for every run, so
\* a run starts where the run before left lastIndex.
newPatternHoisted(leftover) == leftover

\* const pattern = /\b[A-Z]{2,}\b/g: every run evaluates the literal anew, so
\* its pattern starts at lastIndex 0 whatever the pattern of the run before
\* was left with.
newPattern(leftover) == 0

\* validateTextDocument after its await: the scan of text under settings.
validateTextDocument(text, uri, settings, hasRelated, leftover) ==
    whileLoop(text, uri, settings, hasRelated, newPattern(leftover), 0, <<>>)

\* ------------------------------------------------- the completion catalogs
\* The namespace names of the trigger patterns, as the pattern spells them.
stringsName == <<"s", "t", "r", "i", "n", "g", "s">>

jsonName == <<"j", "s", "o", "n">>

httpName == <<"h", "t", "t", "p">>

typesName == <<"t", "y", "p", "e", "s">>

base64Name == <<"b", "a", "s", "e", "6", "4">>

timeName == <<"t", "i", "m", "e">>

decimalName == <<"d", "e", "c", "i", "m", "a", "l">>

\* server/src/server.js lines 229-265 (7 items).
stringsCatalog ==
    <<[label |-> "has_prefix()", kind |-> "Method", data |-> 1],
      [label |-> "has_suffix()", kind |-> "Method", data |-> 2],
      [label |-> "join()", kind |-> "Method", data |-> 3],
      [label |-> "trim_prefix()", kind |-> "Method", data |-> 4],
      [label |-> "to_lower()", kind |-> "Method", data |-> 5],
      [label |-> "to_upper()", kind |-> "Method", data |-> 6],
      [label |-> "split()", kind |-> "Method", data |-> 7]>>

\* server/src/server.js lines 268-279 (2 items).
jsonCatalog ==
    <<[label |-> "marshal()", kind |-> "Method", data |-> 1],
      [label |-> "unmarshal()", kind |-> "Method", data |-> 2]>>

\* server/src/server.js lines 282-308 (5 items).
httpCatalog ==
    <<[label |-> "get()", kind |-> "Method", data |-> 1],
      [label |-> "request()", kind |-> "Method", data |-> 2],
      [label |-> "post()", kind |-> "Method", data |-> 3],
      [label |-> "client", kind |-> "Field", data |-> 4],
      [label |-> "accept_status_codes", kind |-> "Function", data |-> 5]>>

\* server/src/server.js lines 311-317 (1 items).
typesCatalog ==
    <<[label |-> "type_of()", kind |-> "Method", data |-> 1]>>

\* server/src/server.js lines 320-341 (4 items).
base64Catalog ==
    <<[label |-> "encode()", kind |-> "Method", data |-> 1],
      [label |-> "decode()", kind |-> "Method", data |-> 2],
      [label |-> "urlencode()", kind |-> "Method", data |-> 3],
      [label |-> "urldecode()", kind |-> "Method", data |-> 4]>>

\* server/src/server.js lines 344-385 (8 items).
timeCatalog ==
    <<[label |-> "now", kind |-> "Field", data |-> 1],
      [label |-> "load()", kind |-> "Method", data |-> 2],
      [label |-> "second", kind |-> "Field", data |-> 3],
      [label |-> "millisecond", kind |-> "Field", data |-> 4],
      [label |-> "nanosecond", kind |-> "Field", data |-> 5],
      [label |-> "microsecond", kind |-> "Field", data |-> 6],
      [label |-> "minute", kind |-> "Field", data |-> 7],
      [label |-> "hour", kind |-> "Field", data |-> 8]>>

\* server/src/server.js lines 388-529 (28 items).
decimalCatalog ==
    <<[label |-> "infinity()", kind |-> "Method", data |-> 1],
      [label |-> "new()", kind |-> "Method", data |-> 2],
      [label |-> "is_nan()", kind |-> "Method", data |-> 3],
      [label |-> "nan", kind |-> "Field", data |-> 4],
      [label |-> "is_infinite()", kind |-> "Method", data |-> 5],
      [label |-> "string", kind |-> "Field", data |-> 6],
      [label |-> "sign", kind |-> "Field", data |-> 7],
      [label |-> "coefficient", kind |-> "Field", data |-> 8],
      [label |-> "exponent", kind |-> "Field", data |-> 9],
      [label |-> "float", kind |-> "Field", data |-> 10],
      [label |-> "is()", kind |-> "Method", data |-> 11],
      [label |-> "is_not()", kind |-> "Method", data |-> 12],
      [label |-> "less_than()", kind |-> "Method", data |-> 13],
      [label |-> "less_than_or_equals()", kind |-> "Method", data |-> 14],
      [label |-> "greater_than()", kind |-> "Method", data |-> 15],
      [label |-> "greater_than_or_equals()", kind |-> "Method", data |-> 16],
      [label |-> "add()", kind |-> "Method", data |-> 17],
      [label |-> "substract()", kind |-> "Method", data |-> 17],
      [label |-> "multiply()", kind |-> "Method", data |-> 18],
      [label |-> "divide()", kind |-> "Method", data |-> 19],
      [label |-> "modulo()", kind |-> "Method", data |-> 20],
      [label |-> "power()", kind |-> "Method", data |-> 21],
      [label |-> "loge()", kind |-> "Method", data |-> 22],
      [label |-> "sqaure_root()", kind |-> "Method", data |-> 23],
      [label |-> "ceiling()", kind |-> "Method", data |-> 24],
      [label |-> "floor()", kind |-> "Method", data |-> 25],
      [label |-> "absolute()", kind |-> "Method", data |-> 26],
      [label |-> "negate()", kind |-> "Method", data |-> 26]>>

\* The last list as the one list of a server without namespaces: the
\* keywords and the methods in one catalog.
defaultCatalogWithMethods ==
    <<[label |-> "import", kind |-> "Keyword", data |-> 1],
      [label |-> "for", kind |-> "Keyword", data |-> 2],
      [label |-> "length()", kind |-> "Method", data |-> 3],
      [label |-> "has_prefix()", kind |-> "Method", data |-> 4]>>

\* server/src/server.js lines 531-727 (39 items).
defaultCatalog ==
    <<[label |-> "import", kind |-> "Keyword", data |-> 1],
      [label |-> "for", kind |-> "Keyword", data |-> 2],
      [label |-> "as", kind |-> "Keyword", data |-> 3],
      [label |-> "filter", kind |-> "Keyword", data |-> 4],
      [label |-> "if", kind |-> "Keyword", data |-> 5],
      [label |-> "break", kind |-> "Keyword", data |-> 6],
      [label |-> "continue", kind |-> "Keyword", data |-> 7],
      [label |-> "in", kind |-> "Keyword", data |-> 8],
      [label |-> "null", kind |-> "Keyword", data |-> 9],
      [label |-> "rule", kind |-> "Keyword", data |-> 10],
      [label |-> "param", kind |-> "Keyword", data |-> 11],
      [label |-> "default", kind |-> "Keyword", data |-> 12],
      [label |-> "map", kind |-> "Keyword", data |-> 13],
      [label |-> "strings", kind |-> "Keyword", data |-> 14],
      [label |-> "json", kind |-> "Keyword", data |-> 15],
      [label |-> "http", kind |-> "Keyword", data |-> 16],
      [label |-> "types", kind |-> "Keyword", data |-> 17],
      [label |-> "decimal", kind |-> "Keyword", data |-> 18],
      [label |-> "base64", kind |-> "Keyword", data |-> 19],
      [label |-> "time", kind |-> "Keyword", data |-> 20],
      [label |-> "print()", kind |-> "Method", data |-> 21],
      [label |-> "error()", kind |-> "Method", data |-> 22],
      [label |-> "length()", kind |-> "Method", data |-> 23],
      [label |-> "append()", kind |-> "Method", data |-> 24],
      [label |-> "delete()", kind |-> "Method", data |-> 25],
      [label |-> "range()", kind |-> "Method", data |-> 26],
      [label |-> "keys()", kind |-> "Method", data |-> 27],
      [label |-> "values()", kind |-> "Method", data |-> 28],
      [label |-> "int()", kind |-> "Method", data |-> 29],
      [label |-> "string()", kind |-> "Method", data |-> 30],
      [label |-> "float()", kind |-> "Method", data |-> 30],
      [label |-> "bool()", kind |-> "Method", data |-> 31],
      [label |-> "case", kind |-> "Method", data |-> 32],
      [label |-> "when", kind |-> "Method", data |-> 33],
      [label |-> "all", kind |-> "Method", data |-> 34],
      [label |-> "any", kind |-> "Method", data |-> 35],
      [label |-> "func()", kind |-> "Method", data |-> 36],
      [label |-> "return", kind |-> "Keyword", data |-> 37],
      [label |-> "undefined", kind |-> "Keyword", data |-> 37]>>

\* The trigger pattern without \s*, /<name>\.$/: the dot ends the line.
testAtLineEnd(name, line) ==
    /\ Len(name) + 1 <= Len(line)
    /\ substring(line, Len(line) - Len(name) - 1, Len(line)) = name \o <<".">>

\* The trigger pattern with the typed identifier let through,
\* /<name>\.\w*\s*$/.
testAllowsTyped(name, line) ==
    \E i \in 0..Len(line), k \in 0..Len(line) :
        /\ i + Len(name) + 1 <= k
        /\ substring(line, i, i + Len(name) + 1) = name \o <<".">>
        /\ \A j \in (i + Len(name) + 2)..k : IsWord(line[j])
        /\ \A j \in (k + 1)..Len(line) : IsSpace(line[j])

\* The trigger pattern without the name, /\.\s*$/.
testDotOnly(name, line) ==
    \E i \in 1..Len(line) :
        /\ line[i] = "."
        /\ \A j \in (i + 1)..Len(line) : IsSpace(line[j])

\* The trigger pattern without $, /<name>\./: the name and a dot anywhere.
testUnanchored(name, line) ==
    \E i \in 0..Len(line) :
        /\ i + Len(name) + 1 <= Len(line)
        /\ substring(line, i, i + Len(name) + 1) = name \o <<".">>

\* /<name>\.\s*$/.test(line): somewhere in line stands the name, then a dot,
\* and only whitespace follows it up to the end of line.
test(name, line) ==
    \E i \in 0..Len(line) :
        /\ i + Len(name) + 1 <= Len(line)
        /\ substring(line, i, i + Len(name)) = name
        /\ line[i + Len(name) + 1] = "."
        /\ \A j \in (i + Len(name) + 2)..Len(line) : IsSpace(line[j])

\* The chain of tests of onCompletion on the line prefix, in source order;
\* the first that succeeds returns its catalog, none returns the last list.
classify(line) ==
    IF test(stringsName, line) THEN stringsCatalog
    ELSE IF test(jsonName, line) THEN jsonCatalog
    ELSE IF test(httpName, line) THEN httpCatalog
    ELSE IF test(typesName, line) THEN typesCatalog
    ELSE IF test(base64Name, line) THEN base64Catalog
    ELSE IF test(timeName, line) THEN timeCatalog
    ELSE IF test(decimalName, line) THEN decimalCatalog
    ELSE defaultCatalog

\* The line prefix onCompletion reads: the text from the start of the
\* position's line to the position.
linePrefix(text, position) ==
    getText(text, [start |-> [line |-> position.line, character |-> 0],
                   end   |-> position])

\* Completion-resolve with if (item.data) for if (item.data === 1).
resolveItemTruthy(item) ==
    IF item.data # 0
    THEN [item EXCEPT !.detail = "Import plugin or standard library",
                      !.documentation = "Import keyword allow us to import libraries"]
    ELSE item

\* Completion-resolve: item.data === 1 gets detail and documentation; "" stands
\* for a property the item does not have.
resolveItem(item) ==
    IF item.data = 1
    THEN [item EXCEPT !.detail = "Import plugin or standard library",
                      !.documentation = "Import keyword allow us to import libraries"]
    ELSE item

\* ------------------------------------------------------------------ state
VARIABLES
    initialized,          \* the initialize request has been handled
    hasConfigurationCapability,
    hasWorkspaceFolderCapability,
    hasDiagnosticRelatedInformationCapability,
    globalSettings,       \* the settings used without workspace/configuration
    documentSettings,     \* Map: uri -> the Thenable getConfiguration returned
    documents,            \* TextDocuments: uri -> content of the synced document
    dropped,              \* the pending Thenables documentSettings holds no more
    patternLastIndex,     \* lastIndex left in the pattern of the handler's last scan
    last,                 \* the handler that ran last, its argument and result
    sent,                 \* the messages that handler sent to the host
    returned              \* the validateTextDocument calls that returned in it

vars ==
    <<initialized, hasConfigurationCapability, hasWorkspaceFolderCapability,
      hasDiagnosticRelatedInformationCapability, globalSettings, documentSettings,
      documents, dropped, patternLastIndex, last, sent, returned>>

\* const defaultSettings = { maxNumberOfProblems: 1000 }.
defaultSettings == [maxNumberOfProblems |-> 1000]

\* A value that is null or undefined.
Null == [null |-> TRUE]

\* Map.set and Map.delete on a map kept as a function on its keys.
MapSet(map, key, value) ==
    [k \in DOMAIN map \cup {key} |-> IF k = key THEN value ELSE map[k]]

MapDelete(map, key) == [k \in DOMAIN map \ {key} |-> map[k]]

EmptyMap == <<>>

\* The Thenable connection.workspace.getConfiguration returns for resource:
\* pending until the host answers, with the validateTextDocument calls
\* suspended on it in the order they awaited it.
Thenable(resource) ==
    [scopeUri |-> resource, answered |-> FALSE, settings |-> defaultSettings,
     waiting |-> <<>>]

\* A validateTextDocument call suspended at its await. It keeps the document
\* object it was called with: while that is the synced document of its uri
\* (detached = FALSE) it reads the content the store has, and once the uri
\* is closed the object keeps the content it had. sinceLength records, for
\* the properties only, the length the document had when the call was made.
Scan(caller, length) ==
    [caller |-> caller, detached |-> FALSE, content |-> <<>>, sinceLength |-> length]

\* The record kept in last.
Handled(op, uri, arg, line, result) ==
    [op |-> op, uri |-> uri, arg |-> arg, line |-> line, result |-> result]

\* The full report of a diagnostics pull.
Report(items) == [kind |-> "full", items |-> items]

\* Messages to the host.
ConfigurationRequest(resource) ==
    [method |-> "workspace/configuration", scopeUri |-> resource,
     section |-> "languageServerExample", result |-> Null]

RefreshRequest ==
    [method |-> "workspace/diagnostic/refresh", scopeUri |-> "", section |-> "",
     result |-> Null]

DiagnosticResponse(uri, items) ==
    [method |-> "textDocument/diagnostic", scopeUri |-> uri, section |-> "",
     result |-> Report(items)]

\* The state after construction: nothing initialized, no document, no request.
Init ==
    /\ initialized = FALSE
    /\ hasConfigurationCapability = FALSE
    /\ hasWorkspaceFolderCapability = FALSE
    /\ hasDiagnosticRelatedInformationCapability = FALSE
    /\ globalSettings = defaultSettings
    /\ documentSettings = EmptyMap
    /\ documents = EmptyMap
    /\ dropped = EmptyBag
    /\ patternLastIndex = 0
    /\ last = Handled("construct", "", Null, <<>>, Null)
    /\ sent = <<>>
    /\ returned = <<>>

\* --------------------------------------------------------- settings resolver
\* getDocumentSettings without the test of hasConfigurationCapability.
getDocumentSettingsAnyHost(resource) ==
    IF resource \in DOMAIN documentSettings THEN "cached" ELSE "requested"

\* getDocumentSettings without the lookup: every call asks the host.
getDocumentSettingsNoLookup(resource) ==
    IF ~hasConfigurationCapability THEN "global" ELSE "requested"

\* getDocumentSettings that takes only a settled entry for a hit: a pending
\* entry is asked for again.
getDocumentSettingsSettledOnly(resource) ==
    IF ~hasConfigurationCapability THEN "global"
    ELSE IF resource \in DOMAIN documentSettings /\ documentSettings[resource].answered
         THEN "cached"
    ELSE "requested"

\* getDocumentSettings(resource): where the Thenable it returns comes from.
\* "global" is Promise.resolve(globalSettings), "cached" the entry of
\* documentSettings, "requested" a new Thenable, for which it sends a
\* configuration request and which it stores in documentSettings.
getDocumentSettings(resource) ==
    IF ~hasConfigurationCapability THEN "global"
    ELSE IF resource \in DOMAIN documentSettings THEN "cached"
    ELSE "requested"

\* The members of a bag of Thenables, one pair <<thenable, c>> a copy.
copies(bag) == UNION {{<<t, c>> : c \in 1..bag[t]} : t \in BagToSet(bag)}

\* The configuration requests for resource the host has not answered yet.
inFlight(resource) ==
    (IF resource \in DOMAIN documentSettings /\ ~documentSettings[resource].answered
     THEN 1 ELSE 0)
    + Cardinality({x \in copies(dropped) : x[1].scopeUri = resource})

\* The number of validateTextDocument calls suspended at their await.
suspended ==
    Cardinality(UNION {{<<uri, i>> : i \in DOMAIN documentSettings[uri].waiting} :
                          uri \in DOMAIN documentSettings})
    + Cardinality(UNION {{<<x, i>> : i \in DOMAIN x[1].waiting} : x \in copies(dropped)})

\* A Thenable whose waiting scans of a closed uri keep their document object.
detach(thenable, content) ==
    [thenable EXCEPT !.waiting =
        [i \in DOMAIN @ |->
            IF @[i].detached THEN @[i]
            ELSE [@[i] EXCEPT !.detached = TRUE, !.content = content]]]

\* The bag dropped once the document of uri, of content content, is closed.
detachAll(bag, uri, content) ==
    LET moved(t) == IF t.scopeUri = uri THEN detach(t, content) ELSE t
        image == {moved(t) : t \in BagToSet(bag)}
    IN  [y \in image |->
            Cardinality({x \in copies(bag) : moved(x[1]) = y})]

\* The Thenables of the uris of cache that stay pending once cache drops them.
pendingOf(cache, uris) ==
    SetToBag({cache[uri] : uri \in {u \in uris \cap DOMAIN cache : ~cache[u].answered}})

\* One validateTextDocument call that ran to its return.
Returned(uri, caller, text, origin, settings, run) ==
    [uri |-> uri, caller |-> caller, text |-> text, origin |-> origin,
     settings |-> settings, diagnostics |-> run.diagnostics]

\* A message to the host for every call that returned, whoever called.
responsesAllCallers(rets) ==
    [i \in DOMAIN rets |-> DiagnosticResponse(rets[i].uri, rets[i].diagnostics)]

\* The responses to the diagnostics pulls among the calls that returned.
responses(rets) ==
    LET pulls == SelectSeq(rets, LAMBDA r : r.caller = "diagnostics.on")
    IN  [i \in DOMAIN pulls |-> DiagnosticResponse(pulls[i].uri, pulls[i].diagnostics)]

\* validateTextDocument(document) called by caller for the synced document of
\* uri, docs being the documents once the handler has updated them. The
\* settings Thenable is got at once; the call goes on in the same step when
\* the Thenable is already settled and suspends on it otherwise. An entry
\* documentSettings.set replaces stays in flight while it is pending.
callValidate(uri, caller, docs) ==
    LET origin == getDocumentSettings(uri)
        thenable == IF origin = "cached" THEN documentSettings[uri] ELSE Thenable(uri)
        settled == origin = "global" \/ (origin = "cached" /\ thenable.answered)
        settings == IF origin = "global" THEN globalSettings ELSE thenable.settings
        run == validateTextDocument(docs[uri], uri, settings,
                   hasDiagnosticRelatedInformationCapability, patternLastIndex)
        ret == Returned(uri, caller, docs[uri], origin, settings, run)
    IN  /\ ~settled => suspended < MaxScans
        /\ documentSettings' =
               IF settled THEN documentSettings
               ELSE MapSet(documentSettings, uri,
                           [thenable EXCEPT !.waiting = Append(@, Scan(caller, Len(docs[uri])))])
        /\ patternLastIndex' = IF settled THEN run.lastIndex ELSE 0
        /\ returned' = IF settled THEN <<ret>> ELSE <<>>
        /\ sent' = (IF origin = "requested" THEN <<ConfigurationRequest(uri)>> ELSE <<>>)
                   \o (IF settled THEN responses(<<ret>>) ELSE <<>>)
        /\ dropped' = IF origin = "requested"
                      THEN dropped (+) pendingOf(documentSettings, {uri})
                      ELSE dropped

\* The scans that awaited a Thenable resume in the order they suspended, each
\* with the content its document has now and a pattern of its own.
RECURSIVE resume(_, _, _, _, _)
resume(waiting, uri, settings, leftover, acc) ==
    IF waiting = <<>> THEN [returned |-> acc, lastIndex |-> leftover]
    ELSE LET scan == Head(waiting)
             text == IF scan.detached THEN scan.content ELSE documents[uri]
             run  == validateTextDocument(text, uri, settings,
                         hasDiagnosticRelatedInformationCapability, leftover)
         IN  resume(Tail(waiting), uri, settings, run.lastIndex,
                    Append(acc, Returned(uri, scan.caller, text, "answered",
                                         settings, run)))

\* ------------------------------------------------------------------ handlers
\* The capabilities the server declares in its InitializeResult.
InitializeResult(workspaceFolders) ==
    [textDocumentSync |-> "Incremental",
     completionProvider |-> [resolveProvider |-> TRUE, triggerCharacters |-> <<".">>],
     diagnosticProvider |-> [interFileDependencies |-> FALSE,
                             workspaceDiagnostics |-> FALSE],
     workspaceFolders |-> workspaceFolders]

\* onInitialize with the workspace-folders flag read off the configuration
\* capability.
onInitializeSameCapability(configurationCap, workspaceFoldersCap, relatedInformationCap) ==
    /\ ~initialized
    /\ initialized' = TRUE
    /\ hasConfigurationCapability' = configurationCap
    /\ hasWorkspaceFolderCapability' = configurationCap
    /\ hasDiagnosticRelatedInformationCapability' = relatedInformationCap
    /\ last' = Handled("onInitialize", "",
                       <<configurationCap, workspaceFoldersCap, relatedInformationCap>>,
                       <<>>, InitializeResult(workspaceFoldersCap))
    /\ sent' = <<>>
    /\ returned' = <<>>
    /\ patternLastIndex' = 0
    /\ UNCHANGED <<globalSettings, documentSettings, documents, dropped>>

\* connection.onInitialize: the three flags are read off the host's capabilities.
onInitialize(configurationCap, workspaceFoldersCap, relatedInformationCap) ==
    /\ ~initialized
    /\ initialized' = TRUE
    /\ hasConfigurationCapability' = configurationCap
    /\ hasWorkspaceFolderCapability' = workspaceFoldersCap
    /\ hasDiagnosticRelatedInformationCapability' = relatedInformationCap
    /\ last' = Handled("onInitialize", "",
                       <<configurationCap, workspaceFoldersCap, relatedInformationCap>>,
                       <<>>, InitializeResult(workspaceFoldersCap))
    /\ sent' = <<>>
    /\ returned' = <<>>
    /\ patternLastIndex' = 0
    /\ UNCHANGED <<globalSettings, documentSettings, documents, dropped>>

\* textDocument/didOpen: the document is created and onDidChangeContent runs
\* validateTextDocument on it.
didOpen(uri, text) ==
    /\ initialized
    /\ uri \notin DOMAIN documents
    /\ documents' = MapSet(documents, uri, text)
    /\ callValidate(uri, "onDidChangeContent", documents')
    /\ last' = Handled("didOpen", uri, text, <<>>, getDocumentSettings(uri))
    /\ UNCHANGED <<initialized, hasConfigurationCapability, hasWorkspaceFolderCapability,
                   hasDiagnosticRelatedInformationCapability, globalSettings>>

\* didChange with the scan run on the document before the change is applied
\* to it.
didChangeScansFirst(uri, text) ==
    /\ initialized
    /\ uri \in DOMAIN documents
    /\ documents' = MapSet(documents, uri, text)
    /\ callValidate(uri, "onDidChangeContent", documents)
    /\ last' = Handled("didChange", uri, text, <<>>, getDocumentSettings(uri))
    /\ UNCHANGED <<initialized, hasConfigurationCapability, hasWorkspaceFolderCapability,
                   hasDiagnosticRelatedInformationCapability, globalSettings>>

\* textDocument/didChange: the synced document is updated in place and
\* onDidChangeContent runs validateTextDocument on it.
didChange(uri, text) ==
    /\ initialized
    /\ uri \in DOMAIN documents
    /\ documents' = MapSet(documents, uri, text)
    /\ callValidate(uri, "onDidChangeContent", documents')
    /\ last' = Handled("didChange", uri, text, <<>>, getDocumentSettings(uri))
    /\ UNCHANGED <<initialized, hasConfigurationCapability, hasWorkspaceFolderCapability,
                   hasDiagnosticRelatedInformationCapability, globalSettings>>

\* onDidClose that gives up the scans waiting on the entry it deletes.
onDidCloseCancelsScans(uri) ==
    /\ initialized
    /\ uri \in DOMAIN documents
    /\ documents' = MapDelete(documents, uri)
    /\ documentSettings' = MapDelete(documentSettings, uri)
    /\ dropped' = detachAll(dropped, uri, documents[uri])
    /\ patternLastIndex' = 0
    /\ last' = Handled("onDidClose", uri, Null, <<>>, Null)
    /\ sent' = <<>>
    /\ returned' = <<>>
    /\ UNCHANGED <<initialized, hasConfigurationCapability, hasWorkspaceFolderCapability,
                   hasDiagnosticRelatedInformationCapability, globalSettings>>

\* onDidClose without documentSettings.delete(uri).
onDidCloseKeepsEntry(uri) ==
    /\ initialized
    /\ uri \in DOMAIN documents
    /\ documents' = MapDelete(documents, uri)
    /\ documentSettings' =
           IF uri \in DOMAIN documentSettings
           THEN MapSet(documentSettings, uri, detach(documentSettings[uri], documents[uri]))
           ELSE documentSettings
    /\ dropped' = detachAll(dropped, uri, documents[uri])
    /\ patternLastIndex' = 0
    /\ last' = Handled("onDidClose", uri, Null, <<>>, Null)
    /\ sent' = <<>>
    /\ returned' = <<>>
    /\ UNCHANGED <<initialized, hasConfigurationCapability, hasWorkspaceFolderCapability,
                   hasDiagnosticRelatedInformationCapability, globalSettings>>

\* onDidClose with documentSettings.clear() for documentSettings.delete(uri).
onDidCloseClearsAll(uri) ==
    /\ initialized
    /\ uri \in DOMAIN documents
    /\ documents' = MapDelete(documents, uri)
    /\ documentSettings' = EmptyMap
    /\ dropped' = detachAll(dropped (+) pendingOf(documentSettings, DOMAIN documentSettings),
                            uri, documents[uri])
    /\ patternLastIndex' = 0
    /\ last' = Handled("onDidClose", uri, Null, <<>>, Null)
    /\ sent' = <<>>
    /\ returned' = <<>>
    /\ UNCHANGED <<initialized, hasConfigurationCapability, hasWorkspaceFolderCapability,
                   hasDiagnosticRelatedInformationCapability, globalSettings>>

\* textDocument/didClose: the document leaves the store and onDidClose deletes
\* its entry of documentSettings.
onDidClose(uri) ==
    /\ initialized
    /\ uri \in DOMAIN documents
    /\ documents' = MapDelete(documents, uri)
    /\ documentSettings' = MapDelete(documentSettings, uri)
    /\ dropped' = detachAll(dropped (+) pendingOf(documentSettings, {uri}),
                            uri, documents[uri])
    /\ patternLastIndex' = 0
    /\ last' = Handled("onDidClose", uri, Null, <<>>, Null)
    /\ sent' = <<>>
    /\ returned' = <<>>
    /\ UNCHANGED <<initialized, hasConfigurationCapability, hasWorkspaceFolderCapability,
                   hasDiagnosticRelatedInformationCapability, globalSettings>>

\* change.settings.languageServerExample is evaluated only without the
\* configuration capability; it throws a TypeError when change.settings is
\* null or undefined, and the handler ends there.
throwsTypeError(change) == ~hasConfigurationCapability /\ change.settings = Null

\* onDidChangeConfiguration without documentSettings.clear().
onDidChangeConfigurationNoClear(change) ==
    /\ initialized
    /\ IF hasConfigurationCapability
       THEN UNCHANGED globalSettings
       ELSE globalSettings' =
                IF change.settings = Null THEN globalSettings
                ELSE IF change.settings.languageServerExample # Null
                THEN change.settings.languageServerExample
                ELSE defaultSettings
    /\ patternLastIndex' = 0
    /\ last' = Handled("onDidChangeConfiguration", "", change, <<>>,
                       IF throwsTypeError(change) THEN "TypeError" ELSE Null)
    /\ sent' = IF throwsTypeError(change) THEN <<>> ELSE <<RefreshRequest>>
    /\ returned' = <<>>
    /\ UNCHANGED <<initialized, hasConfigurationCapability, hasWorkspaceFolderCapability,
                   hasDiagnosticRelatedInformationCapability, documents,
                   documentSettings, dropped>>

\* connection.onDidChangeConfiguration: with the configuration capability the
\* cache is cleared, without it the settings under the section key, or the
\* defaults, become the global settings; then the host is asked to refresh.
\* A handler that throws leaves the state as it is and sends nothing.
onDidChangeConfiguration(change) ==
    /\ initialized
    /\ IF hasConfigurationCapability
       THEN /\ documentSettings' = EmptyMap
            /\ dropped' = dropped (+) pendingOf(documentSettings, DOMAIN documentSettings)
            /\ UNCHANGED globalSettings
       ELSE /\ globalSettings' =
                   IF throwsTypeError(change) THEN globalSettings
                   ELSE IF change.settings.languageServerExample # Null
                   THEN change.settings.languageServerExample
                   ELSE defaultSettings
            /\ UNCHANGED <<documentSettings, dropped>>
    /\ patternLastIndex' = 0
    /\ last' = Handled("onDidChangeConfiguration", "", change, <<>>,
                       IF throwsTypeError(change) THEN "TypeError" ELSE Null)
    /\ sent' = IF throwsTypeError(change) THEN <<>> ELSE <<RefreshRequest>>
    /\ returned' = <<>>
    /\ UNCHANGED <<initialized, hasConfigurationCapability, hasWorkspaceFolderCapability,
                   hasDiagnosticRelatedInformationCapability, documents>>

\* diagnostics.on that gets the settings before it looks the document up.
diagnosticsOnSettingsFirst(uri) ==
    /\ initialized
    /\ IF uri \in DOMAIN documents
       THEN /\ callValidate(uri, "diagnostics.on", documents)
            /\ last' = Handled("diagnostics.on", uri, Null, <<>>, getDocumentSettings(uri))
       ELSE /\ documentSettings' =
                   IF getDocumentSettings(uri) = "requested"
                   THEN MapSet(documentSettings, uri, Thenable(uri))
                   ELSE documentSettings
            /\ sent' = (IF getDocumentSettings(uri) = "requested"
                        THEN <<ConfigurationRequest(uri)>> ELSE <<>>)
                       \o <<DiagnosticResponse(uri, <<>>)>>
            /\ returned' = <<>>
            /\ patternLastIndex' = 0
            /\ last' = Handled("diagnostics.on", uri, Null, <<>>, "unknown")
            /\ UNCHANGED dropped
    /\ UNCHANGED <<initialized, hasConfigurationCapability, hasWorkspaceFolderCapability,
                   hasDiagnosticRelatedInformationCapability, globalSettings, documents>>

\* connection.languages.diagnostics.on: a known document is scanned, an unknown
\* one is answered with no items at once.
diagnosticsOn(uri) ==
    /\ initialized
    /\ IF uri \in DOMAIN documents
       THEN /\ callValidate(uri, "diagnostics.on", documents)
            /\ last' = Handled("diagnostics.on", uri, Null, <<>>, getDocumentSettings(uri))
       ELSE /\ sent' = <<DiagnosticResponse(uri, <<>>)>>
            /\ returned' = <<>>
            /\ patternLastIndex' = 0
            /\ last' = Handled("diagnostics.on", uri, Null, <<>>, "unknown")
            /\ UNCHANGED <<documentSettings, dropped>>
    /\ UNCHANGED <<initialized, hasConfigurationCapability, hasWorkspaceFolderCapability,
                   hasDiagnosticRelatedInformationCapability, globalSettings, documents>>

\* The scans resume with the global settings instead of the value the host
\* gave their Thenable.
settleReadsGlobalSettings(thenable, settings) ==
    LET done == resume(thenable.waiting, thenable.scopeUri, globalSettings,
                       patternLastIndex, <<>>)
    IN  /\ patternLastIndex' = done.lastIndex
        /\ returned' = done.returned
        /\ sent' = responses(done.returned)
        /\ last' = Handled("hostAnswers", thenable.scopeUri, settings, <<>>, Null)

\* What the answer settings to a pending Thenable sets off: the scans that
\* await it resume, and the pulls among them are answered.
settle(thenable, settings) ==
    LET done == resume(thenable.waiting, thenable.scopeUri, settings,
                       patternLastIndex, <<>>)
    IN  /\ patternLastIndex' = done.lastIndex
        /\ returned' = done.returned
        /\ sent' = responses(done.returned)
        /\ last' = Handled("hostAnswers", thenable.scopeUri, settings, <<>>, Null)

\* The host answers the configuration request of the Thenable that
\* documentSettings holds for uri.
hostAnswers(uri, settings) ==
    /\ uri \in DOMAIN documentSettings
    /\ ~documentSettings[uri].answered
    /\ settle(documentSettings[uri], settings)
    /\ documentSettings' = [documentSettings EXCEPT ![uri] =
                               [@ EXCEPT !.answered = TRUE, !.settings = settings,
                                         !.waiting = <<>>]]
    /\ UNCHANGED <<initialized, hasConfigurationCapability, hasWorkspaceFolderCapability,
                   hasDiagnosticRelatedInformationCapability, globalSettings,
                   documents, dropped>>

\* The host answers the configuration request of a Thenable that
\* documentSettings holds no more.
hostAnswersDropped(thenable, settings) ==
    /\ BagIn(thenable, dropped)
    /\ settle(thenable, settings)
    /\ dropped' = dropped (-) SetToBag({thenable})
    /\ UNCHANGED <<initialized, hasConfigurationCapability, hasWorkspaceFolderCapability,
                   hasDiagnosticRelatedInformationCapability, globalSettings,
                   documents, documentSettings>>

\* onCompletion without the lookup of the document: an unknown document is
\* read as an empty one.
onCompletionNoLookup(uri, position) ==
    /\ initialized
    /\ last' = LET line == IF uri \in DOMAIN documents
                           THEN linePrefix(documents[uri], position) ELSE <<>>
               IN  Handled("onCompletion", uri, position, line, classify(line))
    /\ sent' = <<>>
    /\ returned' = <<>>
    /\ patternLastIndex' = 0
    /\ UNCHANGED <<initialized, hasConfigurationCapability, hasWorkspaceFolderCapability,
                   hasDiagnosticRelatedInformationCapability, globalSettings,
                   documentSettings, documents, dropped>>

\* connection.onCompletion: no items for an unknown document, else the
\* catalog the line prefix selects.
onCompletion(uri, position) ==
    /\ initialized
    /\ last' = IF uri \notin DOMAIN documents
               THEN Handled("onCompletion", uri, position, <<>>, <<>>)
               ELSE LET line == linePrefix(documents[uri], position)
                    IN  Handled("onCompletion", uri, position, line, classify(line))
    /\ sent' = <<>>
    /\ returned' = <<>>
    /\ patternLastIndex' = 0
    /\ UNCHANGED <<initialized, hasConfigurationCapability, hasWorkspaceFolderCapability,
                   hasDiagnosticRelatedInformationCapability, globalSettings,
                   documentSettings, documents, dropped>>

\* An item as the host hands it back to completion-resolve.
Item(entry) ==
    [label |-> entry.label, kind |-> entry.kind, data |-> entry.data,
     detail |-> "", documentation |-> ""]

\* connection.onCompletionResolve.
onCompletionResolve(item) ==
    /\ initialized
    /\ last' = Handled("onCompletionResolve", "", item, <<>>, resolveItem(item))
    /\ sent' = <<>>
    /\ returned' = <<>>
    /\ patternLastIndex' = 0
    /\ UNCHANGED <<initialized, hasConfigurationCapability, hasWorkspaceFolderCapability,
                   hasDiagnosticRelatedInformationCapability, globalSettings,
                   documentSettings, documents, dropped>>

\* ------------------------------------------------------- the specifications
\* The documents of the host.
URIs == {"file:///a", "file:///b"}

\* The contents the host gives the documents of Spec.
DocTexts ==
    {<<"A", "A", " ", "B", "B">>, <<"j", "s", "o", "n", ".">>}

\* The values of maxNumberOfProblems the host configures in Spec.
Settings == {[maxNumberOfProblems |-> n] : n \in {0, 1}}

\* The notifications the host sends: settings is null, or holds under the
\* section key a settings object or nothing.
Changes ==
    {[settings |-> Null]}
    \cup {[settings |-> [languageServerExample |-> x]] : x \in Settings \cup {Null}}

\* The capabilities the hosts of Spec declare: configuration, workspace
\* folders, related information.
HostCapabilities ==
    {<<TRUE, FALSE, FALSE>>, <<FALSE, TRUE, FALSE>>, <<FALSE, FALSE, TRUE>>}

\* The positions the host asks completion at in Spec.
SpecPositions == {[line |-> 0, character |-> 5]}

\* The items the host hands back to completion-resolve in Spec.
ResolvedItems == {Item(defaultCatalog[1]), Item(defaultCatalog[2])}

Next ==
    \/ \E caps \in HostCapabilities : onInitialize(caps[1], caps[2], caps[3])
    \/ \E uri \in URIs, text \in DocTexts : didOpen(uri, text)
    \/ \E uri \in URIs, text \in DocTexts : didChange(uri, text)
    \/ \E uri \in URIs : onDidClose(uri)
    \/ \E change \in Changes : onDidChangeConfiguration(change)
    \/ \E uri \in URIs : diagnosticsOn(uri)
    \/ \E uri \in URIs, settings \in Settings : hostAnswers(uri, settings)
    \/ \E thenable \in BagToSet(dropped), settings \in Settings :
           hostAnswersDropped(thenable, settings)
    \/ \E uri \in URIs, position \in SpecPositions : onCompletion(uri, position)
    \/ \E item \in ResolvedItems : onCompletionResolve(item)

Spec == Init /\ [][Next]_vars

\* ----------------------------------------------- the scanner on every text
\* The characters the texts of SpecScan are drawn from: an uppercase letter,
\* a lowercase letter and an underscore (both \w, not [A-Z]), a space and a
\* line terminator (neither \w).
ScanAlphabet == {"A", "a", "_", " ", "\n"}

\* Texts beyond MaxTextLen: the scenarios "AA BB CC" and "let X = FOO", runs
\* of distinct letters next to a digit, and three runs.
ScenarioTexts ==
    {<<"A", "A", " ", "B", "B", " ", "C", "C">>,
     <<"l", "e", "t", " ", "X", " ", "=", " ", "F", "O", "O">>,
     <<"A", "B", "1", " ", "2", "C", "D", " ", "E", "F">>,
     <<"Q", "R", "\n", "S", "T", "\n", "U", "V">>}

ScanTexts == UNION {[1..n -> ScanAlphabet] : n \in 0..MaxTextLen} \cup ScenarioTexts

\* The settings of SpecScan: every limit up to MaxLimit, and the default.
ScanSettings == {[maxNumberOfProblems |-> n] : n \in 0..MaxLimit} \cup {defaultSettings}

ScanUri == "file:///a"

\* The state once a host without the configuration capability has
\* initialized the server, set the global settings and opened one document:
\* what onInitialize, onDidChangeConfiguration and didOpen leave.
InitScan ==
    \E text \in ScanTexts, settings \in ScanSettings, related \in BOOLEAN :
        LET run == validateTextDocument(text, ScanUri, settings, related, 0)
        IN  /\ initialized = TRUE
            /\ hasConfigurationCapability = FALSE
            /\ hasWorkspaceFolderCapability = FALSE
            /\ hasDiagnosticRelatedInformationCapability = related
            /\ globalSettings = settings
            /\ documentSettings = EmptyMap
            /\ documents = MapSet(EmptyMap, ScanUri, text)
            /\ dropped = EmptyBag
            /\ patternLastIndex = run.lastIndex
            /\ last = Handled("didOpen", ScanUri, text, <<>>, "global")
            /\ sent = <<>>
            /\ returned = <<Returned(ScanUri, "onDidChangeContent", text, "global",
                                     settings, run)>>

\* The host pulls the diagnostics of the document, any number of times.
NextScan == diagnosticsOn(ScanUri)

SpecScan == InitScan /\ [][NextScan]_vars

\* ------------------------------------------- the classifier on many prefixes
\* The pieces the documents of SpecComplete are put together from: every
\* trigger, a namespace name without its dot, a dot, an identifier
\* character, a space and a line terminator.
Fragments ==
    {name \o <<".">> : name \in {stringsName, jsonName, httpName, typesName,
                                  base64Name, timeName, decimalName}}
    \cup {stringsName, <<".">>, <<"x">>, <<" ">>, <<"\n">>}

RECURSIVE Concatenations(_)
Concatenations(n) ==
    IF n = 0 THEN {<<>>}
    ELSE LET shorter == Concatenations(n - 1)
         IN  shorter \cup {t \o f : t \in shorter, f \in Fragments}

\* Lines beyond MaxFrags: "foo.strings. ", a trigger after another one, a
\* trigger followed by a tab, and a trigger on the second line.
ScenarioLines ==
    {<<"f", "o", "o", ".", "s", "t", "r", "i", "n", "g", "s", ".", " ">>,
     <<"j", "s", "o", "n", ".", "s", "t", "r", "i", "n", "g", "s", ".">>,
     <<"s", "t", "r", "i", "n", "g", "s", ".", "\t", " ">>,
     <<"i", "f", " ", "x", "\n", " ", "s", "t", "r", "i", "n", "g", "s", ".", " ", "\n">>}

CompleteTexts == Concatenations(MaxFrags) \cup ScenarioLines

\* The positions the host asks completion at: the position of every offset
\* of the text, one character past the end of every line, and the line past
\* the last one.
Positions(text) ==
    {positionAt(text, o) : o \in 0..Len(text)}
    \cup {[line |-> l, character |-> Len(text) + 1] : l \in 0..Len(lineOffsets(text))}

\* The state once a host has initialized the server and opened one document.
InitComplete ==
    \E text \in CompleteTexts :
        LET run == validateTextDocument(text, ScanUri, defaultSettings, FALSE, 0)
        IN  /\ initialized = TRUE
            /\ hasConfigurationCapability = FALSE
            /\ hasWorkspaceFolderCapability = FALSE
            /\ hasDiagnosticRelatedInformationCapability = FALSE
            /\ globalSettings = defaultSettings
            /\ documentSettings = EmptyMap
            /\ documents = MapSet(EmptyMap, ScanUri, text)
            /\ dropped = EmptyBag
            /\ patternLastIndex = run.lastIndex
            /\ last = Handled("didOpen", ScanUri, text, <<>>, "global")
            /\ sent = <<>>
            /\ returned = <<Returned(ScanUri, "onDidChangeContent", text, "global",
                                     defaultSettings, run)>>

\* The host asks completion at any position of the open document, and at a
\* position of a document it has not opened, and hands an item of the list
\* it got back to completion-resolve.
NextComplete ==
    \/ \E position \in Positions(documents[ScanUri]) : onCompletion(ScanUri, position)
    \/ onCompletion("file:///b", [line |-> 0, character |-> 0])
    \/ /\ last.op = "onCompletion"
       /\ \E i \in DOMAIN last.result : onCompletionResolve(Item(last.result[i]))

SpecComplete == InitComplete /\ [][NextComplete]_vars

\* --------------------------------------- one document that keeps growing
\* The text a document is opened with in SpecChange, and the text a change
\* makes of a text: every change makes the document one character longer, so
\* that of two texts of a document the longer is the later.
openedText == <<"A", "A">>

grown(text) == Append(text, "A")

\* The state once a host with the configuration capability has initialized
\* the server and opened one document: the scan of the open waits for the
\* settings.
InitChange ==
    /\ initialized = TRUE
    /\ hasConfigurationCapability = TRUE
    /\ hasWorkspaceFolderCapability = FALSE
    /\ hasDiagnosticRelatedInformationCapability = FALSE
    /\ globalSettings = defaultSettings
    /\ documentSettings =
           MapSet(EmptyMap, ScanUri,
                  [Thenable(ScanUri) EXCEPT
                       !.waiting = <<Scan("onDidChangeContent", Len(openedText))>>])
    /\ documents = MapSet(EmptyMap, ScanUri, openedText)
    /\ dropped = EmptyBag
    /\ patternLastIndex = 0
    /\ last = Handled("didOpen", ScanUri, openedText, <<>>, "requested")
    /\ sent = <<ConfigurationRequest(ScanUri)>>
    /\ returned = <<>>

\* The host changes, closes and opens the document again, pulls its
\* diagnostics, changes the configuration and answers configuration requests
\* in any order.
NextChange ==
    \/ /\ ScanUri \in DOMAIN documents
       /\ Len(documents[ScanUri]) < MaxTextLen
       /\ didChange(ScanUri, grown(documents[ScanUri]))
    \/ didOpen(ScanUri, openedText)
    \/ onDidClose(ScanUri)
    \/ onDidChangeConfiguration([settings |-> Null])
    \/ diagnosticsOn(ScanUri)
    \/ \E settings \in Settings : hostAnswers(ScanUri, settings)
    \/ \E thenable \in BagToSet(dropped), settings \in Settings :
           hostAnswersDropped(thenable, settings)

SpecChange == InitChange /\ [][NextChange]_vars

\* --------------------------------------------- a host that answers requests
\* The Thenables not settled yet: the pending entries of documentSettings and
\* the ones it holds no more.
pendingThenables ==
    {documentSettings[uri] : uri \in {u \in DOMAIN documentSettings :
                                         ~documentSettings[u].answered}}
    \cup BagToSet(dropped)

\* A Thenable a diagnostics pull awaits.
awaitedByPull(thenable) ==
    \E i \in DOMAIN thenable.waiting : thenable.waiting[i].caller = "diagnostics.on"

\* A diagnostics pull is suspended at the await of validateTextDocument.
pullSuspended == \E thenable \in pendingThenables : awaitedByPull(thenable)

\* The host answers the configuration request a diagnostics pull waits for.
answerPull ==
    \E settings \in Settings :
        \/ /\ ScanUri \in DOMAIN documentSettings
           /\ awaitedByPull(documentSettings[ScanUri])
           /\ hostAnswers(ScanUri, settings)
        \/ \E thenable \in BagToSet(dropped) :
               /\ awaitedByPull(thenable)
               /\ hostAnswersDropped(thenable, settings)

\* The host of SpecChange that types and deletes one character and pulls the
\* diagnostics of the document again only once its last pull has been
\* answered.
NextLive ==
    \/ /\ ScanUri \in DOMAIN documents
       /\ didChange(ScanUri, IF documents[ScanUri] = openedText
                             THEN grown(openedText) ELSE openedText)
    \/ didOpen(ScanUri, openedText)
    \/ onDidClose(ScanUri)
    \/ onDidChangeConfiguration([settings |-> Null])
    \/ ~pullSuspended /\ diagnosticsOn(ScanUri)
    \/ \E settings \in Settings : hostAnswers(ScanUri, settings)
    \/ \E thenable \in BagToSet(dropped), settings \in Settings :
           hostAnswersDropped(thenable, settings)

\* The request a pull waits for stays unanswered from the pull on, whatever
\* the cache does with its entry, so a host that answers every request
\* answers it.
SpecLive == InitChange /\ [][NextLive]_vars /\ WF_vars(answerPull)

\* ------------------------------------------------- properties of the scan
\* The text, the limit and the findings of the scan that ran last in SpecScan.
scanText == documents[ScanUri]

scanLimit == globalSettings.maxNumberOfProblems

findings == returned[1].diagnostics

\* The runs of a text, stated without the pattern: <<s, e>> when the
\* characters at offsets s..e-1 are two or more uppercase letters and the
\* characters next to them, where there are any, are no letter, digit or
\* underscore.
UppercaseRuns(text) ==
    {r \in (0..Len(text)) \X (0..Len(text)) :
        /\ r[2] - r[1] >= 2
        /\ \A i \in (r[1] + 1)..r[2] : text[i] \in UpperLetters
        /\ r[1] > 0 => text[r[1]] \notin WordChars
        /\ r[2] < Len(text) => text[r[2] + 1] \notin WordChars}

\* The k-th run from the left.
RunAt(text, k) ==
    CHOOSE r \in UppercaseRuns(text) :
        Cardinality({q \in UppercaseRuns(text) : q[1] < r[1]}) = k - 1

\* The offsets a finding spans in the text it was found in.
startOffset(text, d) == offsetAt(text, d.range.start)

endOffset(text, d) == offsetAt(text, d.range.end)

Messages(ds) == [i \in DOMAIN ds |-> ds[i].message]

\* C1: for every text and every limit >= 0 the scan returns exactly
\* min(M, maxNumberOfProblems) findings, M being the number of uppercase runs
\* of the text.
ScanCountIsMinOfRunsAndLimit ==
    Len(findings) = Min(Cardinality(UppercaseRuns(scanText)), scanLimit)

\* "AA BB CC" pulled under limit 2: the findings for AA and BB, CC cut.
ScanCountWitness ==
    /\ last.op = "diagnostics.on"
    /\ scanText = <<"A", "A", " ", "B", "B", " ", "C", "C">>
    /\ scanLimit = 2
    /\ Messages(findings) = <<<<"A", "A">> \o IsAllUppercase, <<"B", "B">> \o IsAllUppercase>>

\* C2: the findings are in strictly increasing source order and do not
\* overlap (a finding ends no later than the next one starts), and they are
\* a prefix of the findings of the same text scanned under no effective limit.
ScanOrderedPrefix ==
    LET uncapped == validateTextDocument(scanText, ScanUri, defaultSettings,
                        hasDiagnosticRelatedInformationCapability, 0).diagnostics
    IN  /\ \A i \in 1..(Len(findings) - 1) :
               /\ startOffset(scanText, findings[i]) < startOffset(scanText, findings[i + 1])
               /\ endOffset(scanText, findings[i]) <= startOffset(scanText, findings[i + 1])
        /\ Len(findings) <= Len(uncapped)
        /\ findings = SubSeq(uncapped, 1, Len(findings))

\* Three runs on three lines pulled under limit 2: the first two, in order.
ScanOrderedWitness ==
    /\ last.op = "diagnostics.on"
    /\ Cardinality(UppercaseRuns(scanText)) = 3
    /\ Len(findings) = 2
    /\ findings[1].range.end.line < findings[2].range.start.line

\* C3: the scan reports a substring if and only if it is a maximal run of
\* two or more letters A-Z with a word boundary on both sides: every finding
\* spans such a run, and a scan the limit does not cut short reports every
\* such run.
ScanMatchesBoundedRuns ==
    LET spans == {<<startOffset(scanText, findings[i]), endOffset(scanText, findings[i])>> :
                     i \in DOMAIN findings}
    IN  /\ spans \subseteq UppercaseRuns(scanText)
        /\ scanLimit >= Cardinality(UppercaseRuns(scanText)) => spans = UppercaseRuns(scanText)

\* "let X = FOO" pulled: one finding, for FOO.
ScanMatchesWitness ==
    /\ last.op = "diagnostics.on"
    /\ scanText = <<"l", "e", "t", " ", "X", " ", "=", " ", "F", "O", "O">>
    /\ Messages(findings) = <<<<"F", "O", "O">> \o IsAllUppercase>>

\* C4: the k-th finding has severity Warning and source 'ex', its message is
\* the text of the k-th run followed by " is all uppercase.", and its range
\* runs from the position of the run's first character to the position just
\* past its last one, at least 2 characters on.
ScanFindingFields ==
    \A k \in DOMAIN findings :
        LET r == RunAt(scanText, k)
            d == findings[k]
        IN  /\ d.severity = "Warning"
            /\ d.source = "ex"
            /\ d.message = SubSeq(scanText, r[1] + 1, r[2])
                              \o <<" ", "i", "s", " ", "a", "l", "l", " ", "u", "p", "p",
                                   "e", "r", "c", "a", "s", "e", ".">>
            /\ d.range.start = positionAt(scanText, r[1])
            /\ d.range.end = positionAt(scanText, r[2])
            /\ endOffset(scanText, d) - startOffset(scanText, d) = r[2] - r[1]
            /\ endOffset(scanText, d) - startOffset(scanText, d) >= 2

\* A finding on the second line that starts after the line's first character.
ScanFindingWitness ==
    /\ last.op = "diagnostics.on"
    /\ \E k \in DOMAIN findings :
           /\ findings[k].range.start.line = 1
           /\ findings[k].range.start.character > 0
           /\ findings[k].range.end.character = findings[k].range.start.character + 2

\* C5: a scan of the unchanged text under the same settings and capability
\* flags returns the findings the scan before it returned, wherever that scan
\* left its search position.
ScanRepeats ==
    [][last'.op = "diagnostics.on" => returned'[1].diagnostics = returned[1].diagnostics]_vars

\* A pull that found something although the pattern of the scan before it, cut
\* by the limit, was left at a position inside the text.
ScanRepeatsWitness ==
    /\ last.op = "diagnostics.on"
    /\ patternLastIndex > 0
    /\ Len(findings) >= 1
    /\ Len(findings) < Cardinality(UppercaseRuns(scanText))

\* -------------------------------------------- properties of the settings
\* The handler of the step resolved the settings of uri.
resolved(handled, uri) ==
    /\ handled.op \in {"didOpen", "didChange", "diagnostics.on"}
    /\ handled.uri = uri
    /\ handled.result # "unknown"

Range(seq) == {seq[i] : i \in DOMAIN seq}

\* C6: with the configuration capability, a configuration-change notification
\* leaves documentSettings empty, no step but a resolve of a uri gives the uri
\* an entry again, and the resolve of a uri without an entry sends a
\* configuration request and awaits a new pending Thenable.
ChangeClearsCache ==
    [][hasConfigurationCapability =>
        /\ last'.op = "onDidChangeConfiguration" => documentSettings' = EmptyMap
        /\ \A uri \in URIs :
               uri \notin DOMAIN documentSettings =>
                   IF resolved(last', uri)
                   THEN /\ last'.result = "requested"
                        /\ ConfigurationRequest(uri) \in Range(sent')
                        /\ uri \in DOMAIN documentSettings'
                        /\ ~documentSettings'[uri].answered
                        /\ Len(documentSettings'[uri].waiting) = 1
                   ELSE uri \notin DOMAIN documentSettings']_vars

\* A configuration change has just emptied a cache whose entry a scan of a
\* document still open was waiting on.
ChangeClearsCacheWitness ==
    /\ last.op = "onDidChangeConfiguration"
    /\ hasConfigurationCapability
    /\ documentSettings = EmptyMap
    /\ \E t \in BagToSet(dropped) :
           /\ t.scopeUri \in DOMAIN documents
           /\ \E i \in DOMAIN t.waiting : ~t.waiting[i].detached

\* C7: a resolve of a uri whose entry is pending sends no configuration
\* request and awaits the entry that is there: the entry stays, with one more
\* scan waiting, and the requests in flight for the uri stay as many.
PendingEntryShared ==
    [][\A uri \in URIs :
          (/\ uri \in DOMAIN documentSettings
           /\ ~documentSettings[uri].answered
           /\ resolved(last', uri)) =>
              /\ \A msg \in Range(sent') : msg.method # "workspace/configuration"
              /\ uri \in DOMAIN documentSettings'
              /\ documentSettings'[uri].scopeUri = uri
              /\ ~documentSettings'[uri].answered
              /\ Len(documentSettings'[uri].waiting) = Len(documentSettings[uri].waiting) + 1
              /\ SubSeq(documentSettings'[uri].waiting, 1, Len(documentSettings[uri].waiting))
                     = documentSettings[uri].waiting
              /\ inFlight(uri)' = inFlight(uri)]_vars

\* Two scans wait on the one request in flight for their uri.
PendingEntrySharedWitness ==
    \E uri \in DOMAIN documentSettings :
        /\ ~documentSettings[uri].answered
        /\ Len(documentSettings[uri].waiting) = 2
        /\ inFlight(uri) = 1
        /\ last.result = "cached"

\* C8 as stated: in every reachable state at most one configuration request
\* is in flight for any uri.
AtMostOneInFlight == \A uri \in URIs : inFlight(uri) <= 1

\* No pending Thenable of uri has left documentSettings.
noneInvalidated(uri) == \A t \in BagToSet(dropped) : t.scopeUri # uri

\* C8 as amended: while no configuration change and no close has taken a
\* pending request of the uri out of the cache, at most one request is in
\* flight for the uri, and no step other than a configuration change or a
\* close ends that.
AtMostOneInFlightUntilInvalidated ==
    [][\A uri \in URIs :
          (/\ noneInvalidated(uri)
           /\ inFlight(uri) <= 1
           /\ last'.op \notin {"onDidChangeConfiguration", "onDidClose"}) =>
              /\ noneInvalidated(uri)'
              /\ inFlight(uri)' <= 1]_vars

\* A pull joined the one request in flight for its uri, nothing invalidated,
\* while the request of the other document has been answered.
AtMostOneInFlightWitness ==
    /\ last.op = "diagnostics.on"
    /\ last.result = "cached"
    /\ dropped = EmptyBag
    /\ inFlight(last.uri) = 1
    /\ \E other \in DOMAIN documentSettings \ {last.uri} : documentSettings[other].answered

\* ------------------------------------------ properties of the completion
\* The line ends with the name, a dot and nothing but whitespace.
endsWithTrigger(name, line) ==
    \E n \in (Len(name) + 1)..Len(line) :
        /\ SubSeq(line, n - Len(name), n) = name \o <<".">>
        /\ \A j \in (n + 1)..Len(line) : line[j] \in {" ", "\t", "\n", "\r", "\f"}

Labels(items) == [i \in DOMAIN items |-> items[i].label]

completed == last.op = "onCompletion" /\ last.uri \in DOMAIN documents

namespaceLabels ==
    UNION {Range(Labels(catalog)) :
              catalog \in {stringsCatalog, jsonCatalog, httpCatalog, typesCatalog,
                           base64Catalog, timeCatalog, decimalCatalog}}

namespaceOrder ==
    <<[name |-> stringsName, catalog |-> stringsCatalog, size |-> 7],
      [name |-> jsonName, catalog |-> jsonCatalog, size |-> 2],
      [name |-> httpName, catalog |-> httpCatalog, size |-> 5],
      [name |-> typesName, catalog |-> typesCatalog, size |-> 1],
      [name |-> base64Name, catalog |-> base64Catalog, size |-> 4],
      [name |-> timeName, catalog |-> timeCatalog, size |-> 8],
      [name |-> decimalName, catalog |-> decimalCatalog, size |-> 28]>>

resolvedItem == last.op = "onCompletionResolve"

\* C12: completion-resolve of an item with data 1 returns it with detail and
\* documentation set and label, kind and data as they were; of an item with
\* any other data, the item as it was.
ResolveEnrichesDataOne ==
    resolvedItem =>
        IF last.arg.data = 1
        THEN /\ last.result.detail # ""
             /\ last.result.documentation # ""
             /\ last.result.label = last.arg.label
             /\ last.result.kind = last.arg.kind
             /\ last.result.data = last.arg.data
        ELSE last.result = last.arg

\* The item import of the last list has been resolved.
ResolveEnrichesWitness ==
    /\ resolvedItem
    /\ last.arg.label = "import"
    /\ last.arg.data = 1
    /\ last.result.detail = "Import plugin or standard library"
    /\ last.result.documentation = "Import keyword allow us to import libraries"

\* C13 as stated: of the items a completion request returns, import is the
\* only one completion-resolve changes.
OnlyImportEnriched ==
    (resolvedItem /\ last.arg.label # "import") => last.result = last.arg

pullsOf(rets) == SelectSeq(rets, LAMBDA r : r.caller = "diagnostics.on")

\* The number of findings a scan of text under settings has to give.
expectedCount(text, settings) ==
    Min(Cardinality(UppercaseRuns(text)), settings.maxNumberOfProblems)

\* C14: a diagnostics pull for a uri that is not in the document store is
\* answered at once with {kind: full, items: []}, gets no settings and leaves
\* the settings cache as it is; a pull for an open uri is answered with
\* {kind: full, items: the findings of a scan of the document}, in the step
\* in which that scan returns.
PullAnswersFullReport ==
    [][/\ (last'.op = "diagnostics.on" /\ last'.uri \notin DOMAIN documents) =>
              /\ sent' = <<[method |-> "textDocument/diagnostic", scopeUri |-> last'.uri,
                            section |-> "", result |-> [kind |-> "full", items |-> <<>>]]>>
              /\ returned' = <<>>
              /\ documentSettings' = documentSettings
              /\ dropped' = dropped
       /\ (last'.op = "diagnostics.on" /\ last'.uri \in DOMAIN documents) =>
              \/ /\ returned' = <<>>
                 /\ \A msg \in Range(sent') : msg.method # "textDocument/diagnostic"
                 /\ ~documentSettings'[last'.uri].answered
              \/ /\ Len(returned') = 1
                 /\ returned'[1].text = documents[last'.uri]
                 /\ sent' = <<[method |-> "textDocument/diagnostic", scopeUri |-> last'.uri,
                               section |-> "",
                               result |-> [kind |-> "full",
                                           items |-> returned'[1].diagnostics]]>>
                 /\ Len(returned'[1].diagnostics)
                        = expectedCount(returned'[1].text, returned'[1].settings)
       /\ last'.op = "hostAnswers" =>
              LET pulls == pullsOf(returned')
              IN  /\ Len(sent') = Len(pulls)
                  /\ \A i \in DOMAIN pulls :
                         /\ sent'[i].method = "textDocument/diagnostic"
                         /\ sent'[i].scopeUri = pulls[i].uri
                         /\ sent'[i].result = [kind |-> "full", items |-> pulls[i].diagnostics]
                         /\ Len(pulls[i].diagnostics)
                                = expectedCount(pulls[i].text, pulls[i].settings)]_vars

\* A pull for a uri that is not open was answered with no items while the
\* cache held the pending entry of the open document.
PullAnswersWitness ==
    /\ last.op = "diagnostics.on"
    /\ last.result = "unknown"
    /\ last.uri \notin DOMAIN documents
    /\ hasConfigurationCapability
    /\ \E uri \in DOMAIN documentSettings : ~documentSettings[uri].answered
    /\ sent = <<DiagnosticResponse(last.uri, <<>>)>>

\* C16: after a close notification for a uri documentSettings has no entry
\* for the uri, and has for every other uri the entry it had.
CloseDeletesOwnEntry ==
    [][last'.op = "onDidClose" =>
          /\ last'.uri \notin DOMAIN documentSettings'
          /\ DOMAIN documentSettings' = DOMAIN documentSettings \ {last'.uri}
          /\ \A other \in DOMAIN documentSettings \ {last'.uri} :
                 documentSettings'[other] = documentSettings[other]]_vars

\* A document with a pending entry was closed and the other document kept its
\* entry.
CloseDeletesWitness ==
    /\ last.op = "onDidClose"
    /\ last.uri \notin DOMAIN documentSettings
    /\ \E t \in BagToSet(dropped) : t.scopeUri = last.uri
    /\ documentSettings # EmptyMap

\* C17: without the configuration capability every scan runs at once under
\* the global settings of the moment, which are the defaults until a
\* configuration change replaces them; no configuration request is sent and
\* documentSettings stays empty.
GlobalSettingsWithoutCapability ==
    /\ [](~initialized => globalSettings = defaultSettings)
    /\ [][~hasConfigurationCapability' =>
             /\ documentSettings' = EmptyMap
             /\ dropped' = EmptyBag
             /\ \A msg \in Range(sent') : msg.method # "workspace/configuration"
             /\ globalSettings' # globalSettings => last'.op = "onDidChangeConfiguration"
             /\ (last'.op \in {"didOpen", "didChange"}
                 \/ (last'.op = "diagnostics.on" /\ last'.uri \in DOMAIN documents)) =>
                    /\ Len(returned') = 1
                    /\ returned'[1].origin = "global"
                    /\ returned'[1].settings = globalSettings
                    /\ Len(returned'[1].diagnostics)
                           = expectedCount(documents'[last'.uri], globalSettings)]_vars

\* A scan ran under global settings a configuration change had set.
GlobalSettingsWitness ==
    /\ initialized
    /\ ~hasConfigurationCapability
    /\ globalSettings.maxNumberOfProblems = 1
    /\ Len(returned) = 1
    /\ returned[1].settings = globalSettings
    /\ Len(returned[1].diagnostics) = 1

\* What a notification holds under the section key, the defaults for nothing.
sectionOrDefaults(change) ==
    IF change.settings = Null THEN defaultSettings
    ELSE IF change.settings.languageServerExample = Null THEN defaultSettings
    ELSE change.settings.languageServerExample

\* C18 as stated: without the configuration capability a configuration
\* change makes the global settings what the notification holds under the
\* section key, or the defaults when it holds nothing there, and leaves
\* documentSettings alone; with the capability it clears documentSettings
\* and leaves the global settings alone.
ChangeSetsGlobalOrClears ==
    [][last'.op = "onDidChangeConfiguration" =>
          IF hasConfigurationCapability
          THEN documentSettings' = EmptyMap /\ globalSettings' = globalSettings
          ELSE /\ globalSettings' = sectionOrDefaults(last'.arg)
               /\ documentSettings' = documentSettings]_vars

\* C19 as stated: every configuration-change notification, with or without
\* the capability and with or without settings, is followed by exactly one
\* diagnostics-refresh request to the host.
EveryChangeRefreshes ==
    last.op = "onDidChangeConfiguration" => sent = <<RefreshRequest>>

\* C20 as stated: the findings of the scan an open or change notification
\* triggers are sent to the host.
ChangeFindingsForwarded ==
    \A i \in DOMAIN returned :
        returned[i].caller = "onDidChangeContent" =>
            \E msg \in Range(sent) :
                /\ msg.scopeUri = returned[i].uri
                /\ msg.result # Null
                /\ msg.result.items = returned[i].diagnostics

\* C20 as amended: an open or change notification starts exactly one scan of
\* the document through getDocumentSettings, which returns in the step or
\* waits on the entry of the uri; the findings of such a scan are not sent:
\* no step sends more diagnostics messages than pulls returned in it.
ChangeScansOnceSendsNothing ==
    [][/\ last'.op \in {"didOpen", "didChange"} =>
              /\ documents'[last'.uri] = last'.arg
              /\ \A msg \in Range(sent') : msg.method = "workspace/configuration"
              /\ \/ /\ Len(returned') = 1
                    /\ returned'[1].caller = "onDidChangeContent"
                    /\ returned'[1].uri = last'.uri
                    /\ returned'[1].text = last'.arg
                    /\ Len(returned'[1].diagnostics)
                           = expectedCount(last'.arg, returned'[1].settings)
                    /\ last'.uri \in DOMAIN documentSettings =>
                           documentSettings'[last'.uri] = documentSettings[last'.uri]
                 \/ /\ returned' = <<>>
                    /\ last'.uri \in DOMAIN documentSettings'
                    /\ documentSettings'[last'.uri].waiting =
                           Append(IF last'.uri \in DOMAIN documentSettings
                                  THEN documentSettings[last'.uri].waiting ELSE <<>>,
                                  Scan("onDidChangeContent", Len(last'.arg)))
       /\ last'.op = "hostAnswers" =>
              Cardinality({i \in DOMAIN sent' : sent'[i].method = "textDocument/diagnostic"})
                  = Len(pullsOf(returned'))]_vars

\* A change was scanned at once, with a finding, and nothing was sent.
ChangeScansWitness ==
    /\ last.op = "didChange"
    /\ Len(returned) = 1
    /\ returned[1].caller = "onDidChangeContent"
    /\ Len(returned[1].diagnostics) >= 1
    /\ sent = <<>>

\* C21: the initialize handler sets the three capability flags to what the
\* host declares, and no handler that runs afterwards changes any of them.
CapabilityFlagsFixed ==
    [][IF last'.op = "onInitialize"
       THEN <<hasConfigurationCapability', hasWorkspaceFolderCapability',
              hasDiagnosticRelatedInformationCapability'>> = last'.arg
       ELSE UNCHANGED <<hasConfigurationCapability, hasWorkspaceFolderCapability,
                        hasDiagnosticRelatedInformationCapability>>]_vars

\* A host that declared workspace folders only has changed its
\* configuration, and the flags are the ones it declared.
CapabilityFlagsWitness ==
    /\ last.op = "onDidChangeConfiguration"
    /\ ~hasConfigurationCapability
    /\ hasWorkspaceFolderCapability
    /\ ~hasDiagnosticRelatedInformationCapability

\* C22: for every text and every limit >= 0 the scan ends and returns a
\* sequence of findings, the loop having stopped inside the text; under limit
\* 0 the sequence is empty.
ScanEndsAndZeroLimitEmpty ==
    /\ Len(returned) = 1
    /\ DOMAIN findings = 1..Len(findings)
    /\ 2 * Len(findings) <= Len(scanText)
    /\ patternLastIndex \in 0..Len(scanText)
    /\ scanLimit = 0 => findings = <<>>

\* A text with two runs pulled under limit 0: no finding.
ScanZeroLimitWitness ==
    /\ last.op = "diagnostics.on"
    /\ scanLimit = 0
    /\ Cardinality(UppercaseRuns(scanText)) = 2
    /\ findings = <<>>

\* C23: with the related-information flag set every finding has exactly two
\* related-information entries, each with the uri of the document and the
\* range of the finding; with the flag not set no finding has any.
RelatedInformationFollowsFlag ==
    \A k \in DOMAIN findings :
        IF hasDiagnosticRelatedInformationCapability
        THEN /\ Len(findings[k].relatedInformation) = 2
             /\ \A e \in 1..2 :
                    /\ findings[k].relatedInformation[e].location.uri = ScanUri
                    /\ findings[k].relatedInformation[e].location.range = findings[k].range
        ELSE findings[k].relatedInformation = <<>>

\* Two findings of a host with the flag, each with its two entries.
RelatedInformationWitness ==
    /\ last.op = "diagnostics.on"
    /\ hasDiagnosticRelatedInformationCapability
    /\ Len(findings) = 2
    /\ findings[2].relatedInformation[1].message = "Spelling matters"
    /\ findings[2].relatedInformation[2].message = "Particularly for names"
    /\ findings[2].relatedInformation[2].location.range # findings[1].range

\* The Thenables the step may have settled: the entry of uri that was pending
\* and is answered, and the dropped ones of uri the step took out.
settledBy(uri) ==
    (IF /\ uri \in DOMAIN documentSettings
        /\ ~documentSettings[uri].answered
        /\ uri \in DOMAIN documentSettings'
        /\ documentSettings'[uri].answered
     THEN {documentSettings[uri]} ELSE {})
    \cup {t \in BagToSet(dropped) :
             t.scopeUri = uri /\ dropped' = dropped (-) SetToBag({t})}

\* C24: a change is in the document store before the scan it triggers reads
\* the document. A scan that runs in the step of the change reads the text
\* of the change; a scan that waited for the settings reads the text its
\* document has when it resumes (for a closed document the text it had when
\* it was closed), which is never a text older than the one of the change
\* that triggered the scan.
ChangeAppliedBeforeScanReads ==
    [][/\ last'.op \in {"didOpen", "didChange"} =>
              /\ documents'[last'.uri] = last'.arg
              /\ returned' # <<>> => returned'[1].text = last'.arg
              /\ returned' = <<>> =>
                     LET w == documentSettings'[last'.uri].waiting
                     IN  /\ ~w[Len(w)].detached
                         /\ w[Len(w)].sinceLength = Len(last'.arg)
       /\ last'.op = "hostAnswers" =>
              \E t \in settledBy(last'.uri) :
                  /\ Len(returned') = Len(t.waiting)
                  /\ \A i \in DOMAIN t.waiting :
                         /\ returned'[i].text =
                                IF t.waiting[i].detached THEN t.waiting[i].content
                                ELSE documents[last'.uri]
                         /\ Len(returned'[i].text) >= t.waiting[i].sinceLength]_vars

\* The scan of the open and the scan of a change after it waited for the same
\* answer, and both read the text of the change.
ChangeAppliedWitness ==
    /\ last.op = "hostAnswers"
    /\ Len(returned) = 2
    /\ returned[1].caller = "onDidChangeContent"
    /\ returned[2].caller = "onDidChangeContent"
    /\ returned[1].text = grown(openedText)
    /\ returned[2].text = grown(openedText)
    /\ documents = MapSet(EmptyMap, ScanUri, grown(openedText))

\* The number of lines of a text and the text of its line l without the
\* line terminator.
lineCount(text) == Len(lineOffsets(text))

lineText(text, l) ==
    LET from == lineOffsets(text)[l + 1]
        to   == IF l + 1 < lineCount(text) THEN lineOffsets(text)[l + 2] ELSE Len(text)
        end  == CHOOSE e \in from..to :
                    /\ \A j \in (e + 1)..to : text[j] \in {"\n", "\r"}
                    /\ e = from \/ text[e] \notin {"\n", "\r"}
    IN  SubSeq(text, from + 1, end)

\* The position is outside the text: its line is past the last line, or its
\* character is past the end of its line.
outOfBounds(text, position) ==
    \/ position.line >= lineCount(text)
    \/ position.character > Len(lineText(text, position.line))

\* C25 as stated: for a completion request at a position out of the
\* document's bounds the line prefix is the empty string, and a catalog is
\* returned.
OutOfBoundsPrefixEmpty ==
    (completed /\ outOfBounds(documents[last.uri], last.arg)) =>
        /\ last.line = <<>>
        /\ last.result # <<>>

\* C25 as amended: a request at a line past the last line has the empty line
\* prefix and returns the last list; a request at a character past the end of
\* its line has the whole text of that line for its prefix and returns the
\* list that prefix selects.
OutOfBoundsPrefixClamped ==
    completed =>
        LET text == documents[last.uri]
        IN  IF last.arg.line >= lineCount(text)
            THEN /\ last.line = <<>>
                 /\ Len(last.result) = 39
                 /\ last.result[1].label = "import"
            ELSE last.arg.character > Len(lineText(text, last.arg.line)) =>
                     /\ last.line = lineText(text, last.arg.line)
                     /\ Len(last.result) \in {7, 2, 5, 1, 4, 8, 28, 39}

\* A request past the end of the first of two lines, which ends with the
\* strings trigger: the prefix is that line and the strings list comes back.
OutOfBoundsWitness ==
    /\ completed
    /\ lineCount(documents[last.uri]) = 2
    /\ last.arg.line = 0
    /\ last.arg.character > Len(lineText(documents[last.uri], 0))
    /\ last.line = <<"s", "t", "r", "i", "n", "g", "s", ".">>
    /\ Len(last.result) = 7

\* The offset of the last dot of a line, 0 when it has none.
lastDot(line) ==
    IF \E i \in DOMAIN line : line[i] = "."
    THEN CHOOSE i \in DOMAIN line :
             line[i] = "." /\ \A j \in (i + 1)..Len(line) : line[j] # "."
    ELSE 0

namespaceNames ==
    {<<"s", "t", "r", "i", "n", "g", "s">>, <<"j", "s", "o", "n">>, <<"h", "t", "t", "p">>,
     <<"t", "y", "p", "e", "s">>, <<"b", "a", "s", "e", "6", "4">>, <<"t", "i", "m", "e">>,
     <<"d", "e", "c", "i", "m", "a", "l">>}

CacheEntriesAreOpenDocuments == DOMAIN documentSettings \subseteq DOMAIN documents

\* A document whose entry had been answered was closed, and the entry left
\* is the one of the document still open.
CacheEntriesWitness ==
    /\ last.op = "onDidClose"
    /\ dropped = EmptyBag
    /\ DOMAIN documents = {"file:///a"}
    /\ DOMAIN documentSettings = {"file:///a"}
    /\ documentSettings["file:///a"].answered

\* A name is the end of another name.
isSuffix(a, b) == Len(a) <= Len(b) /\ SubSeq(b, Len(b) - Len(a) + 1, Len(b)) = a

\* The chain of tests of onCompletion tried in the opposite order.
RECURSIVE firstFromBack(_, _)
firstFromBack(line, k) ==
    IF k = 0 THEN defaultCatalog
    ELSE IF test(namespaceOrder[k].name, line) THEN namespaceOrder[k].catalog
    ELSE firstFromBack(line, k - 1)

\* C28: no namespace name is the end of another, no line prefix passes the
\* test of more than one namespace, and the list a request returns is the one
\* the tests give in the opposite order.
TriggersExclusive ==
    /\ \A a \in namespaceNames, b \in namespaceNames : a # b => ~isSuffix(a, b)
    /\ completed =>
           /\ Cardinality({k \in DOMAIN namespaceOrder :
                              test(namespaceOrder[k].name, last.line)}) <= 1
           /\ last.result = firstFromBack(last.line, 7)

\* The request after "json.strings.": two triggers on the line, one test
\* passes.
TriggersExclusiveWitness ==
    /\ completed
    /\ last.line = <<"j", "s", "o", "n", ".", "s", "t", "r", "i", "n", "g", "s", ".">>
    /\ {k \in DOMAIN namespaceOrder : test(namespaceOrder[k].name, last.line)} = {1}
    /\ Len(last.result) = 7

\* C30: a scan that waited applies the limit the host gave the Thenable the
\* scan got from its one getDocumentSettings call. A configuration change or
\* a close does not resume a waiting scan, takes none away and sends no
\* configuration request for one; the step that resumes the scans sends no
\* configuration request, leaves the document store as it is, and leaves
\* documentSettings with the same entries, each the Thenable it was.
ScanKeepsLimitOfItsThenable ==
    [][/\ last'.op \in {"onDidChangeConfiguration", "onDidClose"} =>
              /\ returned' = <<>>
              /\ suspended' = suspended
              /\ \A msg \in Range(sent') : msg.method # "workspace/configuration"
       /\ last'.op = "hostAnswers" =>
              /\ \E t \in settledBy(last'.uri) :
                     /\ Len(returned') = Len(t.waiting)
                     /\ \A i \in DOMAIN returned' :
                            /\ returned'[i].caller = t.waiting[i].caller
                            /\ returned'[i].settings = last'.arg
                            /\ Len(returned'[i].diagnostics)
                                   = expectedCount(returned'[i].text, last'.arg)
              /\ \A msg \in Range(sent') : msg.method # "workspace/configuration"
              /\ documents' = documents
              /\ DOMAIN documentSettings' = DOMAIN documentSettings
              /\ \A u \in DOMAIN documentSettings :
                     \/ documentSettings'[u] = documentSettings[u]
                     \/ /\ u = last'.uri
                        /\ ~documentSettings[u].answered
                        /\ documentSettings'[u] =
                               [documentSettings[u] EXCEPT !.answered = TRUE,
                                                           !.settings = last'.arg,
                                                           !.waiting = <<>>]]_vars

\* A pull that waited while the configuration changed and its document was
\* closed returns one finding for a text of two runs under the limit 1 the
\* host gave its Thenable, and the store and the cache are empty.
ScanKeepsLimitWitness ==
    /\ last.op = "hostAnswers"
    /\ last.arg.maxNumberOfProblems = 1
    /\ Len(returned) = 1
    /\ returned[1].caller = "diagnostics.on"
    /\ returned[1].text = <<"A", "A", " ", "B", "B">>
    /\ Len(returned[1].diagnostics) = 1
    /\ documents = EmptyMap
    /\ documentSettings = EmptyMap
    /\ dropped = EmptyBag

\* The responses to diagnostics pulls among the messages of a step.
reports(msgs) == SelectSeq(msgs, LAMBDA msg : msg.method = "textDocument/diagnostic")

\* The pull that waited has returned and the step sent its one response, a
\* report of kind full with the findings of its scan.
pullAnswered ==
    /\ last.op = "hostAnswers"
    /\ ~pullSuspended
    /\ Len(pullsOf(returned)) = 1
    /\ Len(reports(sent)) = 1
    /\ reports(sent)[1].result.kind = "full"
    /\ reports(sent)[1].result.items = pullsOf(returned)[1].diagnostics

\* C29: with a host that answers every configuration request, a diagnostics
\* pull that is suspended is answered later, whatever change, close and
\* configuration change arrives meanwhile; it leaves its wait only in the
\* step that sends its response, one report of kind full, and no report is
\* sent while it waits.
PullEventuallyAnswered ==
    /\ pullSuspended ~> pullAnswered
    /\ [][/\ (pullSuspended /\ ~pullSuspended') => pullAnswered'
          /\ (pullSuspended /\ pullSuspended') => reports(sent') = <<>>]_vars

\* The pull was answered after the configuration changed and its document
\* was closed while it waited.
PullEventuallyAnsweredWitness ==
    /\ pullAnswered
    /\ pullsOf(returned)[1].origin = "answered"
    /\ documents = EmptyMap
    /\ documentSettings = EmptyMap
    /\ Len(returned) = 2

====
